---- MODULE Spec2Model ----
(***************************************************************************)
(* A model of tools/google-app-script-api/apps-script-api/                 *)
(* script-scripts-run.js: the script_run tool's executeFunction.           *)
(*                                                                         *)
(* Text is a sequence of tokens.  A token is either one reserved character *)
(* ("/", "?", "#", "&", "=", " ", "$", ".", "+") or a run of characters    *)
(* that every encoder and parser below passes through unchanged ("v1",     *)
(* "json", ":run", ...).  A percent triplet ("%26") is one token.          *)
(***************************************************************************)
EXTENDS Integers, Sequences, FiniteSets

(***************************************************************************)
(* Bounds of the model.                                                    *)
(***************************************************************************)
\* longest scriptId, in tokens, of the request-construction specification
MaxIdLen == 2
\* the clock readings new Date() may return are 0..MaxTime
MaxTime == 1

(***************************************************************************)
(* JavaScript values.                                                      *)
(***************************************************************************)
\* A value is its type tag t and a token sequence v: the text of a string, the
\* member text of an object, <<"1">> for true, and <<>> otherwise.
Undefined == [t |-> "undefined", v |-> <<>>]
Null == [t |-> "null", v |-> <<>>]
Bool(b) == [t |-> "boolean", v |-> IF b THEN <<"1">> ELSE <<>>]
Str(s) == [t |-> "string", v |-> s]

\* ToString, as the template literal, URLSearchParams and new Error apply it
ToString(x) ==
  CASE x.t = "undefined" -> <<"undefined">>
    [] x.t = "null" -> <<"null">>
    [] x.t = "boolean" -> IF x.v # <<>> THEN <<"true">> ELSE <<"false">>
    [] x.t = "string" -> x.v
    [] x.t = "object" -> <<"[object Object]">>

\* ToBoolean, as || applies it to error.name
Truthy(x) ==
  CASE x.t = "undefined" -> FALSE
    [] x.t = "null" -> FALSE
    [] x.t = "boolean" -> x.v # <<>>
    [] x.t = "string" -> x.v # <<>>
    [] x.t = "object" -> TRUE

\* a default parameter value applies exactly when the argument is undefined
Default(x, d) == IF x.t = "undefined" THEN d ELSE x

(***************************************************************************)
(* Request construction: lines 18-36.                                      *)
(***************************************************************************)
baseUrl == <<"https:", "/", "/", "script.googleapis.com">>

RECURSIVE IndexOfFrom(_, _, _)
\* the first position >= k of s holding a token of set cs, or Len(s) + 1
IndexOfFrom(s, cs, k) ==
  IF k > Len(s) THEN Len(s) + 1
  ELSE IF s[k] \in cs THEN k
  ELSE IndexOfFrom(s, cs, k + 1)

RECURSIVE Split(_, _)
\* s cut at every token c
Split(s, c) ==
  LET k == IndexOfFrom(s, {c}, 1)
  IN IF k > Len(s) THEN <<s>>
     ELSE <<SubSeq(s, 1, k - 1)>> \o Split(SubSeq(s, k + 1, Len(s)), c)

RECURSIVE Join(_, _)
Join(parts, c) ==
  IF parts = <<>> THEN <<>>
  ELSE IF Len(parts) = 1 THEN parts[1]
  ELSE parts[1] \o <<c>> \o Join(Tail(parts), c)

Shorten(path) == IF path = <<>> THEN <<>> ELSE SubSeq(path, 1, Len(path) - 1)

RECURSIVE PathState(_, _, _)
\* the URL parser's path state over the segments segs[k..]: a ".." segment
\* drops the segment before it, a "." segment is dropped, and either one
\* leaves an empty segment when it is the last
PathState(segs, k, path) ==
  IF k > Len(segs) THEN path
  ELSE LET seg == segs[k]
           last == (k = Len(segs))
       IN IF seg = <<".", ".">>
          THEN PathState(segs, k + 1,
                         IF last THEN Shorten(path) \o << <<>> >> ELSE Shorten(path))
          ELSE IF seg = <<".">>
          THEN PathState(segs, k + 1, IF last THEN path \o << <<>> >> ELSE path)
          ELSE PathState(segs, k + 1, path \o <<seg>>)

\* new URL(s) for a string s that starts with baseUrl followed by "/": the
\* path ends at the first "?" or "#", the query at the first "#"
NewURL(s) ==
  LET rest == SubSeq(s, Len(baseUrl) + 1, Len(s))
      pEnd == IndexOfFrom(rest, {"?", "#"}, 1)
      qEnd == IndexOfFrom(rest, {"#"}, 1)
      segs == Split(SubSeq(rest, 2, pEnd - 1), "/")
  IN [origin |-> baseUrl,
      pathname |-> <<"/">> \o Join(PathState(segs, 1, <<>>), "/"),
      search |-> IF pEnd <= Len(rest) /\ rest[pEnd] = "?" /\ pEnd + 1 <= qEnd - 1
                 THEN <<"?">> \o SubSeq(rest, pEnd + 1, qEnd - 1)
                 ELSE <<>>,
      hash |-> IF qEnd <= Len(rest) THEN SubSeq(rest, qEnd, Len(rest)) ELSE <<>>]

\* url.toString()
Href(u) == u.origin \o u.pathname \o u.search \o u.hash

\* the application/x-www-form-urlencoded byte serializer, token by token
FormEncode(tok) ==
  CASE tok = " " -> "+"
    [] tok = "&" -> "%26"
    [] tok = "=" -> "%3D"
    [] tok = "$" -> "%24"
    [] tok = "?" -> "%3F"
    [] tok = "#" -> "%23"
    [] tok = "/" -> "%2F"
    [] tok = "+" -> "%2B"
    [] OTHER -> tok

FormEncodeAll(s) == [k \in 1..Len(s) |-> FormEncode(s[k])]

\* the record handed to new URLSearchParams, in key order; every value goes
\* through ToString
SearchParams(a) ==
  << <<<<"fields">>, ToString(a.fields)>>,
     <<<<"alt">>, ToString(Default(a.alt, Str(<<"json">>)))>>,
     <<<<"key">>, ToString(a.key)>>,
     <<<<"access_token">>, ToString(a.access_token)>>,
     <<<<"oauth_token">>, ToString(a.oauth_token)>>,
     <<<<"quotaUser">>, ToString(a.quotaUser)>>,
     <<<<"prettyPrint">>, ToString(Default(a.prettyPrint, Bool(TRUE)))>>,
     <<<<"$", ".", "xgafv">>, <<"1">>>>,
     <<<<"upload_protocol">>, <<"raw">>>>,
     <<<<"uploadType">>, <<"raw">>>> >>

\* params.toString()
ParamsToString(ps) ==
  Join([k \in 1..Len(ps) |->
          FormEncodeAll(ps[k][1]) \o <<"=">> \o FormEncodeAll(ps[k][2])], "&")

\* url.search = s, for a non-empty s without a leading "?"
SetSearch(u, s) == [u EXCEPT !.search = <<"?">> \o s]

\* prettyPrint.toString() raises a TypeError on null
ConstructionThrows(a) == Default(a.prettyPrint, Bool(TRUE)).t = "null"

\* lines 19-36: the string later handed to fetch
BuildUrl(a) ==
  LET url == NewURL(baseUrl \o <<"/", "v1", "/", "scripts", "/">>
                      \o ToString(a.scriptId) \o <<":run">>)
  IN Href(SetSearch(url, ParamsToString(SearchParams(a))))

(***************************************************************************)
(* What the collaborators can deliver.                                     *)
(***************************************************************************)
\* a JSON object, as response.json() decodes it, held as the text of its
\* members
Obj(members) == [t |-> "object", v |-> members]

Quoted(s) == <<"\"">> \o s \o <<"\"">>

\* a raised failure: the three properties the catch block reads
Failure(name, message, stack) == [name |-> name, message |-> message, stack |-> stack]

\* new Error(x): the message is ToString(x)
NewError(x) ==
  Failure(Str(<<"Error">>), Str(ToString(x)), Str(<<"Error", " ", "at", " ", "executeFunction">>))

\* what prettyPrint.toString() raises on null
NullToStringError ==
  Failure(Str(<<"TypeError">>), Str(<<"Cannot read properties of null">>), Str(<<"TypeError">>))

\* what fetch rejects with
FetchFailures ==
  {Failure(Str(<<"TypeError">>), Str(<<"fetch failed">>), Str(<<"TypeError">>))}

\* what response.json() rejects with
JsonFailure ==
  Failure(Str(<<"SyntaxError">>), Str(<<"Unexpected token">>), Str(<<"SyntaxError">>))

\* what getAuthHeaders() rejects with: an Error, an Error subclass, an Error
\* whose name is empty, and a thrown plain object that has no name
AuthFailures ==
  {Failure(Str(<<"Error">>), Str(<<"No refresh token">>), Str(<<"Error">>)),
   Failure(Str(<<"AuthError">>), Str(<<"invalid_grant">>), Str(<<"AuthError">>)),
   Failure(Str(<<>>), Str(<<"nameless">>), Str(<<"nameless">>)),
   Failure(Undefined, Str(<<"plain">>), Undefined)}

\* the entries getAuthHeaders() supplies
ProviderHeaders == {<<"Authorization", <<"Bearer", " ", "X">>>>}

\* h[k] = v on a header object
Put(h, k, v) == {e \in h : e[1] # k} \cup {<<k, v>>}

Statuses == {200, 403}

\* response.ok
Ok(status) == status >= 200 /\ status <= 299

\* the decoded bodies a response can carry
JsonValues ==
  {Obj(Quoted(<<"done">>) \o <<":", "true">>),
   Obj(Quoted(<<"error">>) \o <<":">> \o Quoted(<<"forbidden">>)),
   Obj(Quoted(<<"error">>) \o <<":", "true", ",">> \o Quoted(<<"message">>) \o <<":">>
         \o Quoted(<<"script failed">>)),
   Str(<<"forbidden">>),
   Null}

\* a response: its status, and whether its body decodes as JSON and to what
Responses ==
  [status : Statuses, decodes : {TRUE}, value : JsonValues]
    \cup [status : Statuses, decodes : {FALSE}, value : {Undefined}]

(***************************************************************************)
(* The arguments of a call.                                                *)
(***************************************************************************)
Args(scriptId, fields, alt, key, access_token, oauth_token, quotaUser, prettyPrint) ==
  [scriptId |-> scriptId, fields |-> fields, alt |-> alt, key |-> key,
   access_token |-> access_token, oauth_token |-> oauth_token,
   quotaUser |-> quotaUser, prettyPrint |-> prettyPrint]

\* the calls of the interleaving specification
ArgChoices ==
  {Args(Str(<<"id1">>), Undefined, Undefined, Undefined, Undefined, Undefined,
        Undefined, Undefined),
   Args(Str(<<"id2">>), Undefined, Str(<<"xml">>), Str(<<"k", "&", "v">>), Undefined,
        Undefined, Undefined, Bool(FALSE)),
   Args(Str(<<"id1">>), Undefined, Undefined, Undefined, Undefined, Undefined,
        Undefined, Null)}

RECURSIVE SeqsUpTo(_, _)
\* the sequences over S of length at most n
SeqsUpTo(S, n) ==
  IF n = 0 THEN {<<>>}
  ELSE LET shorter == SeqsUpTo(S, n - 1)
       IN shorter \cup {Append(s, c) : s \in shorter, c \in S}

IdAlphabet == {"a", "/", ".", "?", "#"}

OptionalStrings == {Undefined, Str(<<"a", "&", "b", "=", " ", "c">>)}

\* the calls of the request-construction specification
BuildArgs ==
  {Args(Str(id), f, alt, k, Undefined, o, q, pp) :
     id \in SeqsUpTo(IdAlphabet, MaxIdLen),
     f \in OptionalStrings, alt \in {Undefined, Str(<<"xml">>)},
     k \in OptionalStrings, o \in {Undefined, Str(<<"tok">>)},
     q \in {Undefined, Str(<<"u", "$", "1">>)},
     pp \in {Undefined, Bool(TRUE), Bool(FALSE), Null}}

(***************************************************************************)
(* State.                                                                  *)
(***************************************************************************)
Invs == {"A", "B"}

\* the header objects getAuthHeaders() can hand out: one it caches and hands
\* to every caller, and one fresh object per call
Objects == {"cached"} \cup Invs

NoValue == [t |-> "none", v |-> <<>>]

\* one delivery to an invocation: who delivered, whether it was a success,
\* the failure or the response delivered, and the clock reading the catch
\* block took
NoFailure == Failure(Undefined, Undefined, Undefined)
NoResponse == [status |-> 0, decodes |-> FALSE, value |-> Undefined]
Delivery(from, ok, failure, resp, now) ==
  [from |-> from, ok |-> ok, failure |-> failure, response |-> resp, now |-> now]

VARIABLES
  pc,        \* where each invocation is: idle, awaitAuth, awaitFetch, awaitJson,
             \* returned (the promise resolved) or raised (the promise rejected)
  args,      \* the argument of each invocation
  url,       \* the local url, as url.toString() gives it
  headers,   \* the local headers: a reference to a header object
  heap,      \* the header objects' entries
  authCalls, \* the calls of getAuthHeaders() made by each invocation
  requests,  \* the calls of fetch made by each invocation
  response,  \* the local response
  emitted,   \* what each invocation handed to logger.error and console.error
  result,    \* what the promise resolved to
  thrown,    \* what the promise rejected with
  trace,     \* the order of each invocation's calls out and of its return
  recv       \* what the collaborators and the clock delivered to each invocation

vars == <<pc, args, url, headers, heap, authCalls, requests, response, emitted,
          result, thrown, trace, recv>>

InitWith(argSets) ==
  /\ args \in argSets
  /\ pc = [i \in Invs |-> "idle"]
  /\ url = [i \in Invs |-> <<>>]
  /\ headers = [i \in Invs |-> "none"]
  /\ heap = [o \in Objects |-> ProviderHeaders]
  /\ authCalls = [i \in Invs |-> 0]
  /\ requests = [i \in Invs |-> <<>>]
  /\ response = [i \in Invs |-> NoValue]
  /\ emitted = [i \in Invs |-> <<>>]
  /\ result = [i \in Invs |-> NoValue]
  /\ thrown = [i \in Invs |-> NoValue]
  /\ trace = [i \in Invs |-> <<>>]
  /\ recv = [i \in Invs |-> <<>>]

Init == InitWith([Invs -> ArgChoices])

(***************************************************************************)
(* The catch block: lines 57-79.                                           *)
(***************************************************************************)
\* error.name, without the fallback
errorTypeNoFallback(error) == error.name

\* error.name || 'Unknown'
errorType(error) == IF Truthy(error.name) THEN error.name ELSE Str(<<"Unknown">>)

\* lines 58-64
errorDetails(error, scriptId, now) ==
  [message |-> error.message, stack |-> error.stack, scriptId |-> scriptId,
   timestamp |-> now, errorType |-> errorType(error)]

\* the catch block without its console.error line
EmissionsLoggerOnly(details) ==
  <<[sink |-> "logger.error", label |-> <<"SCRIPT_RUN", "Error running the script">>,
     details |-> details]>>

\* lines 66-68: logger.error, then console.error
Emissions(details) ==
  <<[sink |-> "logger.error", label |-> <<"SCRIPT_RUN", "Error running the script">>,
     details |-> details],
    [sink |-> "console.error", label |-> <<"Error running the script:">>,
     details |-> details]>>

\* lines 71-79
ErrorRecord(error, details) ==
  [error |-> TRUE, message |-> error.message, details |-> details,
   rawError |-> [name |-> error.name, stack |-> error.stack]]

\* the whole catch block, which has no suspension point
Catch(i, error, now) ==
  LET details == errorDetails(error, args[i].scriptId, now)
      out == Emissions(details)
  IN /\ emitted' = [emitted EXCEPT ![i] = @ \o out]
     /\ result' = [result EXCEPT ![i] = ErrorRecord(error, details)]
     /\ pc' = [pc EXCEPT ![i] = "returned"]
     /\ trace' = [trace EXCEPT ![i] = @ \o [k \in 1..Len(out) |-> out[k].sink]
                                        \o <<"return">>]
     /\ UNCHANGED thrown

(***************************************************************************)
(* executeFunction: lines 18-56.                                           *)
(***************************************************************************)
\* the call with getAuthHeaders() not awaited: fetch is issued at once, with
\* the pending promise as its headers
executeFunctionNoAwait(i) ==
  /\ pc[i] = "idle"
  /\ IF ConstructionThrows(args[i])
     THEN /\ pc' = [pc EXCEPT ![i] = "raised"]
          /\ thrown' = [thrown EXCEPT ![i] = NullToStringError]
          /\ UNCHANGED <<url, authCalls, trace, requests>>
     ELSE /\ url' = [url EXCEPT ![i] = BuildUrl(args[i])]
          /\ authCalls' = [authCalls EXCEPT ![i] = @ + 1]
          /\ requests' = [requests EXCEPT ![i] =
                            Append(@, [url |-> BuildUrl(args[i]), method |-> "POST",
                                       headers |-> {<<"Content-Type", <<"application/json">>>>},
                                       body |-> Undefined])]
          /\ trace' = [trace EXCEPT ![i] = @ \o <<"getAuthHeaders", "fetch">>]
          /\ pc' = [pc EXCEPT ![i] = "awaitFetch"]
          /\ UNCHANGED thrown
  /\ UNCHANGED <<args, headers, heap, response, emitted, result, recv>>

\* the call with the try block opened at the top of the function: a failure
\* of request construction reaches the catch block
executeFunctionAllInTry(i) ==
  /\ pc[i] = "idle"
  /\ IF ConstructionThrows(args[i])
     THEN /\ Catch(i, NullToStringError, 0)
          /\ UNCHANGED <<url, authCalls>>
     ELSE /\ url' = [url EXCEPT ![i] = BuildUrl(args[i])]
          /\ authCalls' = [authCalls EXCEPT ![i] = @ + 1]
          /\ trace' = [trace EXCEPT ![i] = Append(@, "getAuthHeaders")]
          /\ pc' = [pc EXCEPT ![i] = "awaitAuth"]
          /\ UNCHANGED <<thrown, emitted, result>>
  /\ UNCHANGED <<args, headers, heap, requests, response, recv>>

\* the call, up to the first suspension point: lines 18-40
executeFunction(i) ==
  /\ pc[i] = "idle"
  /\ IF ConstructionThrows(args[i])
     THEN /\ pc' = [pc EXCEPT ![i] = "raised"]
          /\ thrown' = [thrown EXCEPT ![i] = NullToStringError]
          /\ UNCHANGED <<url, authCalls, trace>>
     ELSE /\ url' = [url EXCEPT ![i] = BuildUrl(args[i])]
          /\ authCalls' = [authCalls EXCEPT ![i] = @ + 1]
          /\ trace' = [trace EXCEPT ![i] = Append(@, "getAuthHeaders")]
          /\ pc' = [pc EXCEPT ![i] = "awaitAuth"]
          /\ UNCHANGED thrown
  /\ UNCHANGED <<args, headers, heap, requests, response, emitted, result, recv>>

\* fetch called before line 41 has run: it reads the object as it was handed
headersAtFetchBeforeWrite(h) == h

\* the entries fetch reads from the object it is handed: line 41 has run
headersAtFetch(h) == Put(h, "Content-Type", <<"application/json">>)

\* getAuthHeaders() resolved: lines 40-46, up to the wait for fetch
authResolved(i) ==
  /\ pc[i] = "awaitAuth"
  /\ \E o \in {"cached", i} :
       /\ headers' = [headers EXCEPT ![i] = o]
       /\ heap' = [heap EXCEPT ![o] = Put(@, "Content-Type", <<"application/json">>)]
       /\ requests' = [requests EXCEPT ![i] =
                         Append(@, [url |-> url[i], method |-> "POST",
                                    headers |-> headersAtFetch(heap[o]),
                                    body |-> Undefined])]
  /\ recv' = [recv EXCEPT ![i] = Append(@, Delivery("getAuthHeaders", TRUE, NoFailure,
                                                     NoResponse, 0))]
  /\ trace' = [trace EXCEPT ![i] = Append(@, "fetch")]
  /\ pc' = [pc EXCEPT ![i] = "awaitFetch"]
  /\ UNCHANGED <<args, url, authCalls, response, emitted, result, thrown>>

\* getAuthHeaders() rejected: line 40, then the catch block
authRejected(i) ==
  /\ pc[i] = "awaitAuth"
  /\ \E e \in AuthFailures, now \in 0..MaxTime :
       /\ Catch(i, e, now)
       /\ recv' = [recv EXCEPT ![i] = Append(@, Delivery("getAuthHeaders", FALSE, e,
                                                          NoResponse, now))]
  /\ UNCHANGED <<args, url, headers, heap, authCalls, requests, response>>

\* fetch rejected, with one retry before giving up
fetchRejectedRetries(i) ==
  /\ pc[i] = "awaitFetch"
  /\ \E e \in FetchFailures, now \in 0..MaxTime :
       /\ IF Len(requests[i]) < 2
          THEN /\ requests' = [requests EXCEPT ![i] = Append(@, @[1])]
               /\ trace' = [trace EXCEPT ![i] = Append(@, "fetch")]
               /\ UNCHANGED <<pc, emitted, result, thrown>>
          ELSE /\ Catch(i, e, now)
               /\ UNCHANGED requests
       /\ recv' = [recv EXCEPT ![i] = Append(@, Delivery("fetch", FALSE, e, NoResponse, now))]
  /\ UNCHANGED <<args, url, headers, heap, authCalls, response>>

\* fetch rejected: line 43, then the catch block
fetchRejected(i) ==
  /\ pc[i] = "awaitFetch"
  /\ \E e \in FetchFailures, now \in 0..MaxTime :
       /\ Catch(i, e, now)
       /\ recv' = [recv EXCEPT ![i] = Append(@, Delivery("fetch", FALSE, e, NoResponse, now))]
  /\ UNCHANGED <<args, url, headers, heap, authCalls, requests, response>>

\* fetch resolved: lines 43-50 or 43-55, up to the wait for response.json()
fetchResolved(i) ==
  /\ pc[i] = "awaitFetch"
  /\ \E r \in Responses :
       /\ response' = [response EXCEPT ![i] = r]
       /\ recv' = [recv EXCEPT ![i] = Append(@, Delivery("fetch", TRUE, NoFailure, r, 0))]
  /\ trace' = [trace EXCEPT ![i] = Append(@, "response.json")]
  /\ pc' = [pc EXCEPT ![i] = "awaitJson"]
  /\ UNCHANGED <<args, url, headers, heap, authCalls, requests, emitted, result, thrown>>

\* the decoded body wrapped in a result envelope
ReturnedWrapped(data) == [error |-> FALSE, data |-> data]

\* line 56
Returned(data) == data

\* response.json() resolved on a success status: lines 55-56
jsonResolvedOk(i) ==
  /\ pc[i] = "awaitJson"
  /\ response[i].decodes
  /\ Ok(response[i].status)
  /\ result' = [result EXCEPT ![i] = Returned(response[i].value)]
  /\ pc' = [pc EXCEPT ![i] = "returned"]
  /\ trace' = [trace EXCEPT ![i] = Append(@, "return")]
  /\ recv' = [recv EXCEPT ![i] = Append(@, Delivery("response.json", TRUE, NoFailure,
                                                     response[i], 0))]
  /\ UNCHANGED <<args, url, headers, heap, authCalls, requests, response, emitted, thrown>>

\* response.json() resolved on a non-success status: lines 50-51, then the
\* catch block
jsonResolvedNotOk(i) ==
  /\ pc[i] = "awaitJson"
  /\ response[i].decodes
  /\ ~Ok(response[i].status)
  /\ \E now \in 0..MaxTime :
       /\ Catch(i, NewError(response[i].value), now)
       /\ recv' = [recv EXCEPT ![i] = Append(@, Delivery("response.json", TRUE, NoFailure,
                                                          response[i], now))]
  /\ UNCHANGED <<args, url, headers, heap, authCalls, requests, response>>

\* response.json() awaited outside the try block: its rejection escapes
jsonRejectedEscapes(i) ==
  /\ pc[i] = "awaitJson"
  /\ ~response[i].decodes
  /\ \E now \in 0..MaxTime :
       recv' = [recv EXCEPT ![i] = Append(@, Delivery("response.json", FALSE, JsonFailure,
                                                       NoResponse, now))]
  /\ pc' = [pc EXCEPT ![i] = "raised"]
  /\ thrown' = [thrown EXCEPT ![i] = JsonFailure]
  /\ UNCHANGED <<args, url, headers, heap, authCalls, requests, response, emitted,
                 result, trace>>

\* response.json() rejected, on either status: line 50 or 55, then the catch
\* block
jsonRejected(i) ==
  /\ pc[i] = "awaitJson"
  /\ ~response[i].decodes
  /\ \E now \in 0..MaxTime :
       /\ Catch(i, JsonFailure, now)
       /\ recv' = [recv EXCEPT ![i] = Append(@, Delivery("response.json", FALSE,
                                                          JsonFailure, NoResponse, now))]
  /\ UNCHANGED <<args, url, headers, heap, authCalls, requests, response>>

Step(i) ==
  \/ executeFunction(i)
  \/ authResolved(i)
  \/ authRejected(i)
  \/ fetchRejected(i)
  \/ fetchResolved(i)
  \/ jsonResolvedOk(i)
  \/ jsonResolvedNotOk(i)
  \/ jsonRejected(i)

Next == \E i \in Invs : Step(i)

\* two invocations, interleaved at their suspension points
Spec == Init /\ [][Next]_vars

\* one invocation over the wide argument set, up to the request
InitBuild ==
  InitWith({[i \in Invs |-> IF i = "A" THEN a ELSE b] : a \in BuildArgs, b \in {CHOOSE c \in ArgChoices : TRUE}})

NextBuild == executeFunction("A") \/ authResolved("A")

SpecBuild == InitBuild /\ [][NextBuild]_vars

(***************************************************************************)
(* What the properties below read off a state.                             *)
(***************************************************************************)
\* the runner's Error Record
IsErrorRecord(r) == "error" \in DOMAIN r /\ r.error = TRUE

\* a response has been stored
HasResponse(i) == response[i] # NoValue

\* one of the four failure kinds was delivered to invocation i
AuthFailed(i) ==
  \E k \in 1..Len(recv[i]) : recv[i][k].from = "getAuthHeaders" /\ ~recv[i][k].ok
FetchFailed(i) ==
  \E k \in 1..Len(recv[i]) : recv[i][k].from = "fetch" /\ ~recv[i][k].ok
DecodeFailed(i) ==
  \E k \in 1..Len(recv[i]) : recv[i][k].from = "response.json" /\ ~recv[i][k].ok
Rejected(i) ==
  /\ HasResponse(i)
  /\ ~Ok(response[i].status)
  /\ \E k \in 1..Len(recv[i]) : recv[i][k].from = "response.json" /\ recv[i][k].ok
Failed(i) == AuthFailed(i) \/ FetchFailed(i) \/ DecodeFailed(i) \/ Rejected(i)

\* the failure getAuthHeaders() rejected with
AuthFailureOf(i) ==
  recv[i][CHOOSE k \in 1..Len(recv[i]) : recv[i][k].from = "getAuthHeaders"].failure

\* the position of the first e in a trace, or 0
RECURSIVE PosFrom(_, _, _)
PosFrom(tr, e, k) ==
  IF k > Len(tr) THEN 0 ELSE IF tr[k] = e THEN k ELSE PosFrom(tr, e, k + 1)
Pos(tr, e) == PosFrom(tr, e, 1)

Count(tr, e) == Cardinality({k \in 1..Len(tr) : tr[k] = e})

\* sub occurs in s
Contains(s, sub) ==
  \E k \in 1..(Len(s) + 1) :
    k + Len(sub) - 1 <= Len(s) /\ SubSeq(s, k, k + Len(sub) - 1) = sub

\* JSON.stringify
JsonStringify(x) ==
  CASE x.t = "null" -> <<"null">>
    [] x.t = "boolean" -> IF x.v # <<>> THEN <<"true">> ELSE <<"false">>
    [] x.t = "string" -> Quoted(x.v)
    [] x.t = "object" -> <<"{">> \o x.v \o <<"}">>

\* the receiving side's reading of a request URL: its path, and its query
\* decoded into name-value pairs
PathOf(href) ==
  LET rest == SubSeq(href, Len(baseUrl) + 1, Len(href))
  IN SubSeq(rest, 1, IndexOfFrom(rest, {"?", "#"}, 1) - 1)

FormDecode(tok) ==
  CASE tok = "+" -> " "
    [] tok = "%26" -> "&"
    [] tok = "%3D" -> "="
    [] tok = "%24" -> "$"
    [] tok = "%3F" -> "?"
    [] tok = "%23" -> "#"
    [] tok = "%2F" -> "/"
    [] tok = "%2B" -> "+"
    [] OTHER -> tok

FormDecodeAll(s) == [k \in 1..Len(s) |-> FormDecode(s[k])]

QueryOf(href) ==
  LET rest == SubSeq(href, Len(baseUrl) + 1, Len(href))
      pEnd == IndexOfFrom(rest, {"?", "#"}, 1)
      qEnd == IndexOfFrom(rest, {"#"}, pEnd)
      raw == IF pEnd <= Len(rest) /\ rest[pEnd] = "?"
             THEN SubSeq(rest, pEnd + 1, qEnd - 1) ELSE <<>>
      parts == IF raw = <<>> THEN <<>> ELSE Split(raw, "&")
  IN [k \in 1..Len(parts) |->
        LET eq == IndexOfFrom(parts[k], {"="}, 1)
        IN <<FormDecodeAll(SubSeq(parts[k], 1, eq - 1)),
             FormDecodeAll(SubSeq(parts[k], eq + 1, Len(parts[k])))>>]

\* the text of a supplied value, or d for one left out
Given(x, d) ==
  IF x.t = "undefined" THEN d
  ELSE IF x.t = "boolean" THEN (IF x.v # <<>> THEN <<"true">> ELSE <<"false">>)
  ELSE IF x.t = "string" THEN x.v
  ELSE <<"null">>

\* the ten parameters the query string is to carry for a call
TenParameters(a) ==
  << <<<<"fields">>, Given(a.fields, <<"undefined">>)>>,
     <<<<"alt">>, Given(a.alt, <<"json">>)>>,
     <<<<"key">>, Given(a.key, <<"undefined">>)>>,
     <<<<"access_token">>, Given(a.access_token, <<"undefined">>)>>,
     <<<<"oauth_token">>, Given(a.oauth_token, <<"undefined">>)>>,
     <<<<"quotaUser">>, Given(a.quotaUser, <<"undefined">>)>>,
     <<<<"prettyPrint">>, Given(a.prettyPrint, <<"true">>)>>,
     <<<<"$", ".", "xgafv">>, <<"1">>>>,
     <<<<"upload_protocol">>, <<"raw">>>>,
     <<<<"uploadType">>, <<"raw">>>> >>

RunPath(scriptId) ==
  <<"/", "v1", "/", "scripts", "/">> \o Given(scriptId, <<"undefined">>) \o <<":run">>

(***************************************************************************)
(* Properties.                                                             *)
(***************************************************************************)

\* C1: an invocation that reached the auth step never raises, and once any of
\* the four failure kinds (auth, transport, non-success status, decode) has
\* been delivered to it, it has returned a value whose error field is true.
C1_FailuresAreReturned ==
  \A i \in Invs :
    /\ authCalls[i] > 0 => pc[i] # "raised" /\ thrown[i] = NoValue
    /\ Failed(i) => pc[i] = "returned" /\ IsErrorRecord(result[i])

\* both invocations have failed and returned: one on the Auth Provider, one on
\* the body decode
C1_Witness ==
  /\ AuthFailed("A") /\ pc["A"] = "returned"
  /\ DecodeFailed("B") /\ pc["B"] = "returned"

\* C2: on a non-success status with JSON body P the invocation returns an
\* Error Record with error = true, details.scriptId the input scriptId, and a
\* message that contains the stringified payload, JSON.stringify(P).
C2_MessageCarriesPayload ==
  \A i \in Invs :
    Rejected(i) =>
      /\ pc[i] = "returned"
      /\ IsErrorRecord(result[i])
      /\ result[i].details.scriptId = args[i].scriptId
      /\ Contains(ToString(result[i].message), JsonStringify(response[i].value))

\* C3: on a success status with a body that decodes to B the invocation
\* returns B itself, whatever B is.
C3_BodyReturnedVerbatim ==
  \A i \in Invs :
    (pc[i] = "returned" /\ HasResponse(i) /\ Ok(response[i].status)
       /\ response[i].decodes)
      => result[i] = response[i].value

\* a success body that has an error member of its own was returned
C3_Witness ==
  /\ pc["A"] = "returned"
  /\ HasResponse("A")
  /\ Ok(response["A"].status)
  /\ response["A"].decodes
  /\ result["A"].t = "object"
  /\ Contains(result["A"].v, Quoted(<<"error">>) \o <<":", "true">>)

\* C4: when the Auth Provider fails the invocation returns an Error Record
\* whose details.errorType is the name of the raised failure when it has a
\* (non-empty) name and 'Unknown' otherwise, and whose details.scriptId is
\* the input scriptId.
C4_AuthFailureErrorType ==
  \A i \in Invs :
    AuthFailed(i) =>
      /\ pc[i] = "returned"
      /\ IsErrorRecord(result[i])
      /\ result[i].details.scriptId = args[i].scriptId
      /\ LET name == AuthFailureOf(i).name
         IN result[i].details.errorType =
              IF name.t = "string" /\ name.v # <<>> THEN name ELSE Str(<<"Unknown">>)

\* one invocation failed on a named auth failure, the other on a nameless one
C4_Witness ==
  /\ AuthFailed("A") /\ AuthFailureOf("A").name = Str(<<"AuthError">>)
  /\ pc["A"] = "returned"
  /\ AuthFailed("B") /\ AuthFailureOf("B").name.t = "undefined"
  /\ pc["B"] = "returned"
  /\ result["B"].details.errorType = Str(<<"Unknown">>)

\* C5: the URL of every issued request has the path /v1/scripts/{scriptId}:run
\* and a query string that carries exactly the ten parameters, each with the
\* value the call supplied or its default.
C5_IssuedUrl ==
  \A i \in Invs :
    requests[i] # <<>> =>
      /\ PathOf(requests[i][1].url) = RunPath(args[i].scriptId)
      /\ QueryOf(requests[i][1].url) = TenParameters(args[i])

\* C6: a request has been issued only after the Auth Provider returned
\* headers to the invocation, its call precedes the call of fetch, and an
\* invocation whose Auth Provider failed has issued no request.
C6_AuthBeforeRequest ==
  \A i \in Invs :
    /\ requests[i] # <<>> =>
         /\ recv[i] # <<>>
         /\ recv[i][1].from = "getAuthHeaders"
         /\ recv[i][1].ok
         /\ Pos(trace[i], "getAuthHeaders") > 0
         /\ Pos(trace[i], "getAuthHeaders") < Pos(trace[i], "fetch")
    /\ AuthFailed(i) => requests[i] = <<>> /\ Pos(trace[i], "fetch") = 0

\* one invocation has its request out, the other failed on the Auth Provider
C6_Witness ==
  /\ Len(requests["A"]) = 1
  /\ pc["A"] = "awaitFetch"
  /\ AuthFailed("B")
  /\ pc["B"] = "returned"

\* C7: an invocation makes at most one Auth Provider call and issues at most
\* one request, and once a failure has been delivered it has returned without
\* a further call or request.
C7_NoRetry ==
  \A i \in Invs :
    /\ authCalls[i] <= 1
    /\ Len(requests[i]) <= 1
    /\ Count(trace[i], "getAuthHeaders") <= 1
    /\ Count(trace[i], "fetch") <= 1
    /\ Failed(i) =>
         /\ pc[i] = "returned"
         /\ trace[i][Len(trace[i])] = "return"
         /\ Len(requests[i]) = (IF AuthFailed(i) THEN 0 ELSE 1)

\* an invocation returned after its one request was rejected by the transport
C7_Witness ==
  /\ FetchFailed("A")
  /\ pc["A"] = "returned"
  /\ Len(requests["A"]) = 1
  /\ authCalls["A"] = 1

C9_Independent ==
  /\ \A i, j \in Invs :
       (args[i] = args[j] /\ recv[i] = recv[j] /\ pc[i] # "idle" /\ pc[j] # "idle") =>
         /\ pc[i] = pc[j]
         /\ url[i] = url[j]
         /\ requests[i] = requests[j]
         /\ result[i] = result[j]
  /\ \A i \in Invs :
       \A k \in 1..Len(requests[i]) :
         requests[i][k].headers =
           ProviderHeaders \cup {<<"Content-Type", <<"application/json">>>>}

\* both invocations were handed the cached header object and have returned
C9_Witness ==
  /\ headers["A"] = "cached"
  /\ headers["B"] = "cached"
  /\ args["A"] = args["B"]
  /\ recv["A"] = recv["B"]
  /\ pc["A"] = "returned"
  /\ pc["B"] = "returned"

\* C10: a call whose prettyPrint is null is raised to the caller out of
\* request construction: it returns no Error Record, makes no Auth Provider
\* call, issues no request and emits nothing.
C10_ConstructionFailureRaised ==
  \A i \in Invs :
    (args[i].prettyPrint.t = "null" /\ pc[i] # "idle") =>
      /\ pc[i] = "raised"
      /\ thrown[i] # NoValue
      /\ result[i] = NoValue
      /\ authCalls[i] = 0
      /\ requests[i] = <<>>
      /\ emitted[i] = <<>>
      /\ trace[i] = <<>>

\* a call with prettyPrint null has been made
C10_Witness ==
  /\ args["A"].prettyPrint.t = "null"
  /\ pc["A"] = "raised"

====
